---- MODULE Spec2Model ----
(***************************************************************************)
(* Model of Pegasus/db/admin/admin_loader.py: the AdminDB orchestrator     *)
(* that tracks, discovers and moves the schema version of the logical      *)
(* databases CATALOGS, MASTER and WORKFLOW.                                 *)
(*                                                                         *)
(* Every public method (verify, current_version, update, downgrade) is one *)
(* action that runs the whole method.  The calls a method makes on its     *)
(* collaborators (is_compatible, update, downgrade of a version module and *)
(* the insert of a dbversion row) are written to `log` in the order the    *)
(* code makes them, so that ordering properties are state predicates.      *)
(***************************************************************************)
EXTENDS Integers, Sequences, FiniteSets, TLC

\* ---------------------------------------------------------------- constants

CURRENT_DB_VERSION == 3

\* the OrderedDict COMPATIBILITY, in insertion order
COMPATIBILITY ==
    << <<"4.3.0", 1>>, <<"4.3.1", 1>>, <<"4.3.2", 1>>,
       <<"4.4.0", 2>>, <<"4.4.1", 2>>, <<"4.4.2", 2>>,
       <<"4.5.0", 3>> >>

\* the keys of self.connections
DBNames == {"CATALOGS", "MASTER", "WORKFLOW"}

Versions == 1..CURRENT_DB_VERSION

\* Python's None where an integer version is expected (an unconfigured database)
None == -1

\* _get_version raising NoResultFound, as a value of the helper operators
NoResultFound == -2

\* _parse_pegasus_version raising ValueError, as a value of the helper operator
ValueError == -3

\* pegasus_version=None / database_name=None (the default of the keyword arguments)
NoArg == ""

\* ------------------------------------------------------------------- bounds

\* most dbversion rows the tables of the three databases hold together
MaxRecords == 3

\* an invocation of update or downgrade makes its fail-th call of a version step
\* raise MigrationError, fail in 0..MaxFailAt (0: no step raises)
MaxFailAt == 2

\* live schemas of a database without a dbversion row, each given as the set of
\* versions whose is_compatible() holds on it
Schemas == { {}, {1}, {1, 3}, {2, 3} }

\* release identifiers the callers pass (NoArg: the argument is left out)
PegasusVersions == {NoArg, "4.3.1", "4.4.0", "4.5.0", "9.9.9"}

\* database names the callers pass
DatabaseNames == {NoArg, "workflow"}

\* ------------------------------------------------------------------- state

VARIABLES
    connections,      \* self.connections: db name -> TRUE when a handle exists
    order,            \* iteration order of the dicts self.connections and current_version
    records,          \* db name -> version_number of the dbversion rows, by id
    compat,           \* db name -> versions whose is_compatible() holds on the live schema
    call,             \* the last method invoked and its arguments
    current_version,  \* the dict current_version built by the last invocation
    log,              \* collaborator calls of the last invocation, in order
    raised,           \* exception that left the last invocation ("" when it returned)
    returned          \* value verify returned (TRUE for the other methods)

vars == <<connections, order, records, compat, call, current_version, log, raised, returned>>

\* ------------------------------------------------------------ pure helpers

\* Python truthiness of a version value (None and 0 are false)
Truthy(v) == v # None /\ v # 0

Max(S) == CHOOSE x \in S : \A y \in S : y <= x

\* str.upper on the names callers pass
Upper(s) ==
    CASE s = "master"   -> "MASTER"
      [] s = "workflow" -> "WORKFLOW"
      [] s = "catalogs" -> "CATALOGS"
      [] OTHER          -> s

\* Iteration orders of the two dicts keyed by the database names.  CPython 2 puts
\* "CATALOGS" and "MASTER" in the same slot of an 8-slot dict, so the order of these
\* two keys is the reverse of their insertion order: self.connections (filled
\* CATALOGS, MASTER, WORKFLOW) iterates MASTER, CATALOGS, WORKFLOW, and the dict
\* current_version, filled in that order, iterates CATALOGS, MASTER, WORKFLOW.
\* The second pair is an order hash randomization (python -R) can give.
DictOrders ==
    { [connections     |-> <<"MASTER", "CATALOGS", "WORKFLOW">>,
       current_version |-> <<"CATALOGS", "MASTER", "WORKFLOW">>],
      [connections     |-> <<"WORKFLOW", "CATALOGS", "MASTER">>,
       current_version |-> <<"WORKFLOW", "MASTER", "CATALOGS">>] }

\* for key in COMPATIBILITY: if key == pegasus_version: version = ...; break
CompatLookup(pegasus_version) ==
    LET hits == { i \in DOMAIN COMPATIBILITY : COMPATIBILITY[i][1] = pegasus_version }
    IN  IF hits = {} THEN None
        ELSE COMPATIBILITY[CHOOSE i \in hits : \A j \in hits : i <= j][2]

\* AdminDB._parse_pegasus_version
ParsePegasusVersion(pegasus_version) ==
    LET version == IF pegasus_version # NoArg THEN CompatLookup(pegasus_version) ELSE None
    IN  IF pegasus_version # NoArg /\ ~Truthy(version) THEN ValueError
        ELSE IF ~Truthy(version) THEN CURRENT_DB_VERSION
        ELSE version

\* update walking range(cv + 1, version): the last step is left out
UpdateRange_short(cv, version) == [ j \in 1..(version - cv - 1) |-> cv + j ]

\* range(cv + 1, version + 1) of update
UpdateRange(cv, version) == [ j \in 1..(version - cv) |-> cv + j ]

\* downgrade walking range(cv, version - 1, -1): one step too many
DowngradeRange_long(cv, version) == [ j \in 1..(cv - version + 1) |-> cv - j + 1 ]

\* range(cv, version, -1) of downgrade
DowngradeRange(cv, version) == [ j \in 1..(cv - version) |-> cv - j + 1 ]

\* range(1, CURRENT_DB_VERSION + 1) of _discover_version
DiscoverRange == [ j \in 1..CURRENT_DB_VERSION |-> j ]

\* ---------------------------------------------- the running invocation (st)
\* st = [records, compat, log, raised]: the stores and the trace while a method runs

Event(ev, in, db, n, ok) == [ev |-> ev, in |-> in, db |-> db, n |-> n, ok |-> ok]

Start == [records |-> records, compat |-> compat, log |-> <<>>, raised |-> ""]

\* _get_version reading the oldest row (order_by id ascending)
GetVersion_first(st, db_name) ==
    IF connections[db_name]
    THEN IF st.records[db_name] = <<>> THEN NoResultFound
         ELSE st.records[db_name][1]
    ELSE None

\* _get_version reading the row of the greatest version (order_by version_number)
GetVersion_greatest(st, db_name) ==
    IF connections[db_name]
    THEN IF st.records[db_name] = <<>> THEN NoResultFound
         ELSE Max({ st.records[db_name][k] : k \in DOMAIN st.records[db_name] })
    ELSE None

\* AdminDB._get_version
GetVersion(st, db_name) ==
    IF connections[db_name]
    THEN IF st.records[db_name] = <<>> THEN NoResultFound
         ELSE st.records[db_name][Len(st.records[db_name])]
    ELSE None

\* _update_version whose session.add is never committed: no row is kept
UpdateVersion_uncommitted(st, version, db_name, in) ==
    IF connections[db_name]
    THEN [st EXCEPT !.log = Append(@, Event("add", in, db_name, version, TRUE))]
    ELSE st

\* AdminDB._update_version
UpdateVersion(st, version, db_name, in) ==
    IF connections[db_name]
    THEN [st EXCEPT !.records[db_name] = Append(@, version),
                    !.log = Append(@, Event("add", in, db_name, version, TRUE))]
    ELSE st

\* Version.is_compatible of module v<i> on the live schema of db_name
IsCompatible(st, db_name, i) == i \in st.compat[db_name]

\* Version.update of module v<i>: the schema takes the shape of version i
ApplyUpgrade(st, db_name, i) ==
    [st EXCEPT !.compat[db_name] = {i},
               !.log = Append(@, Event("update", "update", db_name, i, TRUE))]

\* Version.downgrade of module v<i>: the schema takes the shape of version i - 1
ApplyDowngrade(st, db_name, i) ==
    [st EXCEPT !.compat[db_name] = {i - 1} \cap Versions,
               !.log = Append(@, Event("downgrade", "downgrade", db_name, i, TRUE))]

\* number of Version.update / Version.downgrade calls the invocation has made
StepCalls(st) ==
    Cardinality({ k \in DOMAIN st.log : st.log[k].ev \in {"update", "downgrade"} })

\* the next step call is the one that raises
Raises(st, fail) == fail = StepCalls(st) + 1

\* a step that raises, with the version of the step recorded all the same
StepFails_recorded(st, in, db_name, i) ==
    LET failed == [st EXCEPT !.raised = "MigrationError",
                             !.log = Append(@, [ev |-> in, in |-> in, db |-> db_name,
                                                n |-> i, ok |-> FALSE])]
    IN  [failed EXCEPT !.records[db_name] = Append(@, IF in = "update" THEN i ELSE i - 1),
                       !.log = Append(@, [ev |-> "add", in |-> in, db |-> db_name,
                                          n |-> IF in = "update" THEN i ELSE i - 1,
                                          ok |-> TRUE])]

\* a step that raises leaves the schema as it was and ends the invocation
StepFails(st, in, db_name, i) ==
    [st EXCEPT !.raised = "MigrationError",
               !.log = Append(@, Event(in, in, db_name, i, FALSE))]

\* the loop of _discover_version leaving at the first compatible version
RECURSIVE DiscoverLoop_first(_, _, _, _)
DiscoverLoop_first(st, db_name, version, k) ==
    IF k > CURRENT_DB_VERSION \/ version > 0 THEN [st |-> st, version |-> version]
    ELSE DiscoverLoop_first(
             [st EXCEPT !.log = Append(@, [ev |-> "is_compatible", in |-> "_discover_version",
                                           db |-> db_name, n |-> k,
                                           ok |-> k \in st.compat[db_name]])],
             db_name, IF k \in st.compat[db_name] THEN k ELSE version, k + 1)

\* the loop of _discover_version from position k of its range on
RECURSIVE DiscoverLoop(_, _, _, _)
DiscoverLoop(st, db_name, version, k) ==
    IF k > Len(DiscoverRange) THEN [st |-> st, version |-> version]
    ELSE LET i == DiscoverRange[k]
             probed == [st EXCEPT !.log =
                           Append(@, Event("is_compatible", "_discover_version", db_name, i,
                                           IsCompatible(st, db_name, i)))]
         IN  DiscoverLoop(probed, db_name,
                          IF IsCompatible(st, db_name, i) THEN i ELSE version, k + 1)

\* AdminDB._discover_version: [st, version]
DiscoverVersion(st, db_name) ==
    LET d == DiscoverLoop(st, db_name, 0, 1)
    IN  IF d.version > 0
        THEN [st |-> UpdateVersion(d.st, d.version, db_name, "_discover_version"),
              version |-> d.version]
        ELSE d

\* current_version running _discover_version whether or not a row exists
VersionOrDiscover_always(st, db_name) == DiscoverVersion(st, db_name)

\* try: _get_version except NoResultFound: _discover_version
VersionOrDiscover(st, db_name) ==
    IF GetVersion(st, db_name) = NoResultFound
    THEN DiscoverVersion(st, db_name)
    ELSE [st |-> st, version |-> GetVersion(st, db_name)]

\* the loop of current_version over self.connections: [st, cv]
RECURSIVE CurrentVersionLoop(_, _, _)
CurrentVersionLoop(st, cv, k) ==
    IF k > Len(order.connections) THEN [st |-> st, cv |-> cv]
    ELSE LET r == VersionOrDiscover(st, order.connections[k])
         IN  CurrentVersionLoop(r.st, [cv EXCEPT ![order.connections[k]] = r.version], k + 1)

\* current_version = {}
EmptyDict == [d \in {} |-> None]

\* current_version = {} with every key of self.connections still to be set
NoDict == [d \in DBNames |-> None]

\* _check_version without the "db_version and" of its condition: a database
\* without a handle (db_version None) counts as a mismatch
CheckVersion_strict(st, db_name, version) ==
    LET db_version == GetVersion(st, db_name)
    IN  IF db_version = NoResultFound THEN "NoResultFound"
        ELSE IF version # db_version THEN "False"
        ELSE "True"

\* AdminDB._check_version: "True", "False", or "NoResultFound" when _get_version raises
CheckVersion(st, db_name, version) ==
    LET db_version == GetVersion(st, db_name)
    IN  IF db_version = NoResultFound THEN "NoResultFound"
        ELSE IF Truthy(db_version) /\ version # db_version THEN "False"
        ELSE "True"

\* try: _check_version except NoResultFound: _discover_version; _check_version
CheckOrDiscover(st, db_name, version) ==
    IF CheckVersion(st, db_name, version) = "NoResultFound"
    THEN LET d == DiscoverVersion(st, db_name)
         IN  [st |-> d.st, res |-> CheckVersion(d.st, db_name, version)]
    ELSE [st |-> st, res |-> CheckVersion(st, db_name, version)]

\* the loop of verify over self.connections: [st, res]
RECURSIVE VerifyLoop(_, _, _)
VerifyLoop(st, version, k) ==
    IF k > Len(order.connections) THEN [st |-> st, res |-> "True"]
    ELSE LET r == CheckOrDiscover(st, order.connections[k], version)
         IN  IF r.res # "True" THEN r ELSE VerifyLoop(r.st, version, k + 1)

\* the parse loop in which the last identifier of a version wins (every match
\* overwrites the one before): COMPATIBILITY read from its end
RECURSIVE ParseLoop_last(_, _, _)
ParseLoop_last(v, replaced, k) ==
    IF k > Len(COMPATIBILITY) THEN v
    ELSE IF ~replaced /\ COMPATIBILITY[Len(COMPATIBILITY) + 1 - k][2] = v
         THEN ParseLoop_last(COMPATIBILITY[Len(COMPATIBILITY) + 1 - k][1], TRUE, k + 1)
         ELSE ParseLoop_last(v, replaced, k + 1)

\* the parse loop of current_version on one value: once a value is replaced by an
\* identifier (a str) no later entry of COMPATIBILITY compares equal to it
RECURSIVE ParseLoop(_, _, _)
ParseLoop(v, replaced, k) ==
    IF k > Len(COMPATIBILITY) THEN v
    ELSE IF ~replaced /\ COMPATIBILITY[k][2] = v
         THEN ParseLoop(COMPATIBILITY[k][1], TRUE, k + 1)
         ELSE ParseLoop(v, replaced, k + 1)

ParseDict(cv) == [d \in DOMAIN cv |-> ParseLoop(cv[d], FALSE, 1)]

\* update testing "cv is not None" where it tests "cv": version 0 passes
NeedsUpdate_nonnull(cv, version) == cv # None /\ cv < version

\* "if cv and cv < version" of update
NeedsUpdate(cv, version) == Truthy(cv) /\ cv < version

\* "if cv and cv > version" of downgrade
NeedsDowngrade(cv, version) == Truthy(cv) /\ cv > version

\* downgrade taking one version below the requested one for every request
DowngradeTarget_below(version) == version - 1

\* downgrade without the adjustment of the newest version
DowngradeTarget_kept(version) == version

\* "if version == CURRENT_DB_VERSION: version = version - 1" of downgrade
DowngradeTarget(version) == IF version = CURRENT_DB_VERSION THEN version - 1 ELSE version

\* the inner loop of update on one database
RECURSIVE UpgradeWalk(_, _, _, _, _)
UpgradeWalk(st, db_name, rng, fail, k) ==
    IF k > Len(rng) THEN st
    ELSE IF Raises(st, fail) THEN StepFails(st, "update", db_name, rng[k])
    ELSE UpgradeWalk(UpdateVersion(ApplyUpgrade(st, db_name, rng[k]), rng[k], db_name, "update"),
                     db_name, rng, fail, k + 1)

\* the inner loop of downgrade on one database
RECURSIVE DowngradeWalk(_, _, _, _, _)
DowngradeWalk(st, db_name, rng, fail, k) ==
    IF k > Len(rng) THEN st
    ELSE IF Raises(st, fail) THEN StepFails(st, "downgrade", db_name, rng[k])
    ELSE DowngradeWalk(UpdateVersion(ApplyDowngrade(st, db_name, rng[k]), rng[k] - 1, db_name,
                                     "downgrade"),
                       db_name, rng, fail, k + 1)

\* the outer loop of update over the dict current_version; an exception ends it
RECURSIVE UpdateLoop(_, _, _, _, _)
UpdateLoop(st, cv, version, fail, k) ==
    IF k > Len(order.current_version) \/ st.raised # "" THEN st
    ELSE UpdateLoop(IF NeedsUpdate(cv[order.current_version[k]], version)
                    THEN UpgradeWalk(st, order.current_version[k],
                                     UpdateRange(cv[order.current_version[k]], version), fail, 1)
                    ELSE st,
                    cv, version, fail, k + 1)

\* the outer loop of downgrade over the dict current_version
RECURSIVE DowngradeLoop(_, _, _, _, _)
DowngradeLoop(st, cv, version, fail, k) ==
    IF k > Len(order.current_version) \/ st.raised # "" THEN st
    ELSE DowngradeLoop(IF NeedsDowngrade(cv[order.current_version[k]], version)
                       THEN DowngradeWalk(st, order.current_version[k],
                                          DowngradeRange(cv[order.current_version[k]], version),
                                          fail, 1)
                       ELSE st,
                       cv, version, fail, k + 1)

\* AdminDB.update from the state st0: [st, cv]
RunUpdate(st0, pegasus_version, fail) ==
    LET c == CurrentVersionLoop(st0, NoDict, 1)
        version == ParsePegasusVersion(pegasus_version)
    IN  [cv |-> c.cv,
         st |-> IF version = ValueError THEN [c.st EXCEPT !.raised = "ValueError"]
                ELSE UpdateLoop(c.st, c.cv, version, fail, 1)]

\* AdminDB.downgrade from the state st0: [st, cv]
RunDowngrade(st0, pegasus_version, fail) ==
    LET c == CurrentVersionLoop(st0, NoDict, 1)
        version == ParsePegasusVersion(pegasus_version)
    IN  [cv |-> c.cv,
         st |-> IF version = ValueError THEN [c.st EXCEPT !.raised = "ValueError"]
                ELSE DowngradeLoop(c.st, c.cv, DowngradeTarget(version), fail, 1)]

\* AdminDB.verify from the state st0: [st, res]
RunVerify(st0, pegasus_version, database_name) ==
    LET version == ParsePegasusVersion(pegasus_version)
    IN  IF version = ValueError THEN [st |-> st0, res |-> "ValueError"]
        ELSE IF database_name # NoArg
             THEN CheckOrDiscover(st0, Upper(database_name), version)
             ELSE VerifyLoop(st0, version, 1)

\* AdminDB.current_version from the state st0: [st, cv]
RunCurrentVersion(st0, database_name, parse) ==
    LET c == IF database_name # NoArg
             THEN LET r == VersionOrDiscover(st0, Upper(database_name))
                  IN  [st |-> r.st, cv |-> [d \in {Upper(database_name)} |-> r.version]]
             ELSE CurrentVersionLoop(st0, NoDict, 1)
    IN  [st |-> c.st, cv |-> IF parse THEN ParseDict(c.cv) ELSE c.cv]

\* ------------------------------------------------------------------ actions

Call(op, pegasus_version, database_name, parse) ==
    [op |-> op, pegasus_version |-> pegasus_version, database_name |-> database_name,
     parse |-> parse]

\* which step call of an invocation raises MigrationError (0: none)
Fails == 0..MaxFailAt

WithinBounds(st) ==
    Len(st.records["CATALOGS"]) + Len(st.records["MASTER"]) + Len(st.records["WORKFLOW"])
        <= MaxRecords

\* stores a database can be in when AdminDB is built: no dbversion row and any
\* schema, or one row and the schema of that version
InitialStores ==
    { [records |-> <<>>, compat |-> c] : c \in Schemas }
        \cup { [records |-> <<v>>, compat |-> {v}] : v \in Versions }

\* AdminDB.__init__: MASTER always gets a handle; CATALOGS only with the JDBCRC
\* replica catalog, WORKFLOW only with a submit directory or a database url
Init ==
    /\ connections \in { c \in [DBNames -> BOOLEAN] : c["MASTER"] }
    /\ order \in DictOrders
    /\ \E s \in [DBNames -> InitialStores] :
          /\ \A d \in DBNames : ~connections[d] => s[d] = [records |-> <<>>, compat |-> {}]
          /\ records = [d \in DBNames |-> s[d].records]
          /\ compat = [d \in DBNames |-> s[d].compat]
    /\ call = Call("__init__", NoArg, NoArg, FALSE)
    /\ current_version = EmptyDict
    /\ log = <<>>
    /\ raised = ""
    /\ returned = TRUE

Finish(st) ==
    /\ WithinBounds(st)
    /\ records' = st.records
    /\ compat' = st.compat
    /\ log' = st.log
    /\ UNCHANGED <<connections, order>>

\* AdminDB.verify(pegasus_version, database_name)
Verify ==
    \E pegasus_version \in PegasusVersions, database_name \in DatabaseNames :
        \E r \in {RunVerify(Start, pegasus_version, database_name)} :
            /\ Finish(r.st)
            /\ call' = Call("verify", pegasus_version, database_name, FALSE)
            /\ current_version' = EmptyDict
            /\ raised' = IF r.res \in {"ValueError", "NoResultFound"} THEN r.res ELSE ""
            /\ returned' = (r.res = "True")

\* AdminDB.current_version(database_name, parse)
CurrentVersion ==
    \E database_name \in DatabaseNames, parse \in BOOLEAN :
        \E r \in {RunCurrentVersion(Start, database_name, parse)} :
            /\ Finish(r.st)
            /\ call' = Call("current_version", NoArg, database_name, parse)
            /\ current_version' = r.cv
            /\ raised' = ""
            /\ returned' = TRUE

\* AdminDB.update(pegasus_version, force)
Update ==
    \E pegasus_version \in PegasusVersions, fail \in Fails :
        \E r \in {RunUpdate(Start, pegasus_version, fail)} :
            /\ Finish(r.st)
            /\ call' = Call("update", pegasus_version, NoArg, FALSE)
            /\ current_version' = r.cv
            /\ raised' = r.st.raised
            /\ returned' = TRUE

\* AdminDB.downgrade(pegasus_version, force)
Downgrade ==
    \E pegasus_version \in PegasusVersions, fail \in Fails :
        \E r \in {RunDowngrade(Start, pegasus_version, fail)} :
            /\ Finish(r.st)
            /\ call' = Call("downgrade", pegasus_version, NoArg, FALSE)
            /\ current_version' = r.cv
            /\ raised' = r.st.raised
            /\ returned' = TRUE

Next == Verify \/ CurrentVersion \/ Update \/ Downgrade

Spec == Init /\ [][Next]_vars

\* the process running update is killed between k.update(force) and
\* self._update_version(i, db_name) of its kill-th step: the schema has the shape
\* of version i, the table has no row for it, no exception reaches a caller.
\* The next call is made on an AdminDB built again over the same databases.
KilledInUpdate ==
    \E pegasus_version \in PegasusVersions, kill \in 1..MaxFailAt :
        \E r \in {RunUpdate(Start, pegasus_version, kill)} :
            /\ r.st.raised = "MigrationError"
            /\ Finish(ApplyUpgrade([r.st EXCEPT !.log = SubSeq(@, 1, Len(@) - 1)],
                                   r.st.log[Len(r.st.log)].db, r.st.log[Len(r.st.log)].n))
            /\ call' = Call("update", pegasus_version, NoArg, FALSE)
            /\ current_version' = r.cv
            /\ raised' = "Killed"
            /\ returned' = FALSE

NextCrash == CurrentVersion \/ Update \/ KilledInUpdate

\* the runs of update, with processes that can be killed inside it, and of
\* current_version: every behaviour of SpecCrash without a kill is one of Spec
SpecCrash == Init /\ [][NextCrash]_vars

\* ------------------------------------------------- vocabulary of the claims

Ops == {"update", "downgrade"}

\* the version the release identifier of the last call maps to
Target == ParsePegasusVersion(call.pegasus_version)

\* the target of downgrade as the specification gives it: one below the newest
\* version when no identifier is passed, the mapped version otherwise
DowngradeGoal == IF call.pegasus_version = NoArg THEN CURRENT_DB_VERSION - 1 ELSE Target

\* the database's latest dbversion row carries version v
RecordedAt(d, v) == records[d] # <<>> /\ records[d][Len(records[d])] = v

\* what the last invocation did on database d
LogOf(d) == SelectSeq(log, LAMBDA e : e.db = d)

\* what the walk of the last update / downgrade did on database d
WalkOf(d) == SelectSeq(log, LAMBDA e : e.db = d /\ e.in \in Ops)

\* what discovery did on database d in the last invocation
DiscoveryOf(d) == SelectSeq(log, LAMBDA e : e.db = d /\ e.in = "_discover_version")

\* apply v<cv+1>, record cv+1, ..., apply v<target>, record target
AscendingWalk(d, cv, target) ==
    [ k \in 1..(2 * (target - cv)) |->
        IF k % 2 = 1 THEN Event("update", "update", d, cv + (k + 1) \div 2, TRUE)
                     ELSE Event("add", "update", d, cv + k \div 2, TRUE) ]

\* un-apply v<cv>, record cv-1, ..., un-apply v<target+1>, record target
DescendingWalk(d, cv, target) ==
    [ k \in 1..(2 * (cv - target)) |->
        IF k % 2 = 1 THEN Event("downgrade", "downgrade", d, cv - (k - 1) \div 2, TRUE)
                     ELSE Event("add", "downgrade", d, cv - k \div 2, TRUE) ]

UpdateReturned == call.op = "update" /\ raised = ""

DowngradeReturned == call.op = "downgrade" /\ raised = ""

\* ---------------------------------------------------------------- claim C1

\* C1 as stated: after update(target) returned, every configured database whose
\* current version cv reported by current_version() satisfies 0 <= cv < target
\* has had exactly the steps cv+1..target applied in ascending order, each
\* recorded right after it, and is recorded at target.
C1_AnyVersionFromZero ==
    UpdateReturned =>
        \A d \in DBNames :
            (connections[d] /\ 0 <= current_version[d] /\ current_version[d] < Target)
                => /\ WalkOf(d) = AscendingWalk(d, current_version[d], Target)
                   /\ RecordedAt(d, Target)

\* C1 amended: the same for every configured database with 1 <= cv < target (a
\* database whose version is reported as 0 is left alone).
C1_UpdateWalksAscending ==
    UpdateReturned =>
        \A d \in DBNames :
            (connections[d] /\ 1 <= current_version[d] /\ current_version[d] < Target)
                => /\ WalkOf(d) = AscendingWalk(d, current_version[d], Target)
                   /\ RecordedAt(d, Target)

\* update("4.5.0") has taken a database from version 1 over 2 to 3
C1_Witness ==
    /\ UpdateReturned
    /\ \E d \in DBNames :
          /\ connections[d] /\ current_version[d] = 1 /\ Target = 3
          /\ Len(WalkOf(d)) = 4
          /\ RecordedAt(d, 3)

\* ---------------------------------------------------------------- claim C2

\* C2: after downgrade(target) returned, every configured database whose current
\* version cv is above the target has had exactly the steps cv, cv-1, ...,
\* target+1 un-applied in descending order, version i-1 recorded right after
\* step i, and is recorded at target.
C2_DowngradeWalksDescending ==
    DowngradeReturned =>
        \A d \in DBNames :
            (connections[d] /\ current_version[d] > DowngradeGoal)
                => /\ WalkOf(d) = DescendingWalk(d, current_version[d], DowngradeGoal)
                   /\ RecordedAt(d, DowngradeGoal)

\* downgrade("4.3.1") has taken a database from version 3 over 2 to 1
C2_Witness ==
    /\ DowngradeReturned
    /\ \E d \in DBNames :
          /\ connections[d] /\ current_version[d] = 3 /\ DowngradeGoal = 1
          /\ Len(WalkOf(d)) = 4
          /\ RecordedAt(d, 1)

\* ---------------------------------------------------------------- claim C3

\* C3 as stated: after update or downgrade with an explicit release identifier
\* returned, a configured database that was recorded at the mapped version has no
\* step applied and no row written, and a downgrade has applied no step
\* i <= target and recorded no version below target.
C3_ExplicitTargetReachedIsNoOp ==
    (call.op \in Ops /\ call.pegasus_version # NoArg /\ raised = "") =>
        \A d \in DBNames :
            /\ (connections[d] /\ current_version[d] = Target /\ DiscoveryOf(d) = <<>>)
                  => LogOf(d) = <<>>
            /\ call.op = "downgrade" =>
                  \A k \in DOMAIN WalkOf(d) :
                      /\ WalkOf(d)[k].ev = "downgrade" => WalkOf(d)[k].n > Target
                      /\ WalkOf(d)[k].ev = "add" => WalkOf(d)[k].n >= Target

\* ---------------------------------------------------------------- claim C4

\* C4 as stated: after downgrade() with no identifier returned, a configured
\* database reported at CURRENT_DB_VERSION has had exactly the one step
\* CURRENT_DB_VERSION un-applied and is recorded one below, and a configured
\* database reported at or below CURRENT_DB_VERSION - 1 has had no step and got
\* no new row at all.
C4_NoRowAtOrBelowDefaultTarget ==
    (DowngradeReturned /\ call.pegasus_version = NoArg) =>
        \A d \in DBNames : connections[d] =>
            /\ current_version[d] = CURRENT_DB_VERSION
                  => /\ WalkOf(d) = DescendingWalk(d, CURRENT_DB_VERSION, CURRENT_DB_VERSION - 1)
                     /\ RecordedAt(d, CURRENT_DB_VERSION - 1)
            /\ current_version[d] <= CURRENT_DB_VERSION - 1
                  => \A k \in DOMAIN LogOf(d) : LogOf(d)[k].ev \notin {"downgrade", "update", "add"}

\* C4 amended: the same, except that a database reported at or below
\* CURRENT_DB_VERSION - 1 gets no step and no row from the walk; the only row it
\* can get is the one discovery writes when it had no row and its discovered
\* version is above 0.
C4_DefaultDowngradeTarget ==
    (DowngradeReturned /\ call.pegasus_version = NoArg) =>
        \A d \in DBNames : connections[d] =>
            /\ current_version[d] = CURRENT_DB_VERSION
                  => /\ WalkOf(d) = DescendingWalk(d, CURRENT_DB_VERSION, CURRENT_DB_VERSION - 1)
                     /\ RecordedAt(d, CURRENT_DB_VERSION - 1)
            /\ current_version[d] <= CURRENT_DB_VERSION - 1
                  => /\ WalkOf(d) = <<>>
                     /\ DiscoveryOf(d) = <<>> => LogOf(d) = <<>>
                     /\ \A k \in DOMAIN DiscoveryOf(d) :
                           DiscoveryOf(d)[k].ev = "add"
                               => /\ DiscoveryOf(d)[k].n = current_version[d]
                                  /\ records[d] = <<current_version[d]>>

\* downgrade() met one database at version 3 and took it to 2, and another at
\* version 1 that it left alone
C4_Witness ==
    /\ DowngradeReturned /\ call.pegasus_version = NoArg
    /\ \E d, e \in DBNames :
          /\ connections[d] /\ current_version[d] = CURRENT_DB_VERSION
          /\ Len(WalkOf(d)) = 2 /\ RecordedAt(d, CURRENT_DB_VERSION - 1)
          /\ connections[e] /\ current_version[e] = 1 /\ LogOf(e) = <<>>

\* ---------------------------------------------------------------- claim C5

\* positions of the log at which a version step raised
FailedSteps(l) == { k \in DOMAIN l : l[k].ev \in Ops /\ ~l[k].ok }

\* positions of the log at which a version step was called
StepsIn(l) == { k \in DOMAIN l : l[k].ev \in Ops }

\* the version a database is recorded at once step i of the walk has succeeded
RecordOfStep(op, i) == IF op = "update" THEN i ELSE i - 1

\* the version a database is recorded at when step i of the walk is about to run
RecordBeforeStep(op, i) == IF op = "update" THEN i - 1 ELSE i

\* when a step raises, nothing follows it in the invocation, the invocation ends
\* with MigrationError, no row is written for the step, and the database is
\* recorded at the version the step started from
C5_WalkStopsAtFailure ==
    \A k \in FailedSteps(log) :
        /\ k = Len(log)
        /\ raised = "MigrationError"
        /\ \A j \in DOMAIN log :
              (log[j].ev = "add" /\ log[j].in = call.op /\ log[j].db = log[k].db)
                  => log[j].n # RecordOfStep(call.op, log[k].n)
        /\ RecordedAt(log[k].db, RecordBeforeStep(call.op, log[k].n))

\* the same operation with the same identifier, invoked right after a failure,
\* calls the failed step of the failed database before any other step
C5_RetryStartsAtFailedStep ==
    \A k \in FailedSteps(log) :
        (call'.op = call.op /\ call'.pegasus_version = call.pegasus_version)
            => /\ StepsIn(log') # {}
               /\ LET first == log'[CHOOSE j \in StepsIn(log') : \A m \in StepsIn(log') : j <= m]
                  IN  first.db = log[k].db /\ first.n = log[k].n /\ first.ev = log[k].ev

\* C5: a failing applyUpgrade / applyDowngrade stops the walk at once, writes no
\* row for the failed step and leaves the database at the version recorded by
\* the last successful step; re-invoking the operation starts at the failed step.
C5_FailureStopsWalkAndRetryResumes ==
    [](C5_WalkStopsAtFailure) /\ [][C5_RetryStartsAtFailedStep]_vars

\* a walk of two steps failed at its second step: the database stays recorded
\* at the version of the first step, between where it started and the target
C5_Witness ==
    \E k \in FailedSteps(log) :
        /\ k >= 3
        /\ log[k - 1].ev = "add" /\ log[k - 1].in = call.op /\ log[k - 1].db = log[k].db
        /\ log[k - 2].ev = call.op /\ log[k - 2].ok /\ log[k - 2].db = log[k].db
        /\ RecordedAt(log[k].db, log[k - 1].n)
        /\ log[k - 1].n # current_version[log[k].db]
        /\ raised = "MigrationError"

\* ---------------------------------------------------------------- claim C6

\* the database needs steps in the last update / downgrade
NeedsSteps(d) ==
    /\ connections[d]
    /\ IF call.op = "update"
       THEN 1 <= current_version[d] /\ current_version[d] < Target
       ELSE current_version[d] > DowngradeGoal

\* C6 as stated: when the walk of one database raises in update or downgrade,
\* every other database that needs steps has its walk started in that invocation.
C6_SiblingWalksStillStarted ==
    \A k \in FailedSteps(log) :
        \A d \in DBNames \ {log[k].db} : NeedsSteps(d) => WalkOf(d) # <<>>

\* ---------------------------------------------------------------- claim C7

UnknownRelease(pegasus_version) ==
    /\ pegasus_version # NoArg
    /\ \A i \in DOMAIN COMPATIBILITY : COMPATIBILITY[i][1] # pegasus_version

\* C7 as stated: verify, update and downgrade with a release identifier that is
\* not in COMPATIBILITY raise ValueError and have applied no step and inserted
\* no dbversion row in any database.
C7_UnknownReleaseMutatesNothing ==
    (call.op \in {"verify", "update", "downgrade"} /\ UnknownRelease(call.pegasus_version))
        => /\ raised = "ValueError"
           /\ \A k \in DOMAIN log : log[k].ev \notin {"update", "downgrade", "add"}

\* ---------------------------------------------------------------- claim C8

\* the current version of a configured database: that of its latest row, and
\* without a row the highest compatible version of its schema, 0 when there is none
CurrentOf(d) ==
    IF records[d] # <<>> THEN records[d][Len(records[d])] ELSE Max(compat[d] \cup {0})

\* C8 as stated: verify(identifier) over all databases returns, and returns true
\* exactly when the current version of every configured database equals the
\* version the identifier maps to.
C8_VerifyIffAllAtTarget ==
    (call.op = "verify" /\ call.database_name = NoArg /\ ~UnknownRelease(call.pegasus_version))
        => /\ raised = ""
           /\ returned <=> (\A d \in DBNames : connections[d] => CurrentOf(d) = Target)

\* ---------------------------------------------------------------- claim C9

\* C9 as stated: no invocation of verify, current_version, update or downgrade
\* ends with NoResultFound.
C9_NoResultFoundNeverSurfaces == raised # "NoResultFound"

\* --------------------------------------------------------------- claim C10

\* the is_compatible calls discovery made on database d, in the log l
ProbesIn(l, d) ==
    SelectSeq(l, LAMBDA e : e.db = d /\ e.in = "_discover_version" /\ e.ev = "is_compatible")

\* the rows discovery wrote for database d, in the log l
DiscoveredRowsIn(l, d) ==
    SelectSeq(l, LAMBDA e : e.db = d /\ e.in = "_discover_version" /\ e.ev = "add")

HighestCompatible(probes) ==
    Max({0} \cup { probes[k].n : k \in { j \in DOMAIN probes : probes[j].ok } })

C10_Step ==
    \A d \in DBNames :
        (call'.op = "current_version" /\ d \in DOMAIN current_version'
            /\ connections[d] /\ records[d] = <<>>)
        => LET probes == ProbesIn(log', d)
               rows == DiscoveredRowsIn(log', d)
           IN  /\ Len(probes) = CURRENT_DB_VERSION
               /\ \A k \in DOMAIN probes :
                     probes[k].n = k /\ (probes[k].ok <=> k \in compat[d])
               /\ ~call'.parse => current_version'[d] = HighestCompatible(probes)
               /\ HighestCompatible(probes) > 0
                     => /\ Len(rows) = 1 /\ rows[1].n = HighestCompatible(probes)
                        /\ records'[d] = <<HighestCompatible(probes)>>
               /\ HighestCompatible(probes) = 0 => (rows = <<>> /\ records'[d] = <<>>)

\* C10: current_version on a configured database without a dbversion row probes
\* is_compatible of every version 1..CURRENT_DB_VERSION in ascending order,
\* returns the highest compatible version, writes exactly one row with it when
\* it is above 0, and returns 0 and writes no row when no version is compatible.
C10_DiscoveryTakesHighest == [][C10_Step]_vars

\* current_version found versions 1 and 3 compatible, probed all three, and
\* reported and recorded 3
C10_Witness ==
    /\ call.op = "current_version" /\ ~call.parse
    /\ \E d \in DOMAIN current_version :
          /\ Len(ProbesIn(log, d)) = CURRENT_DB_VERSION
          /\ ProbesIn(log, d)[1].ok /\ ~ProbesIn(log, d)[2].ok /\ ProbesIn(log, d)[3].ok
          /\ current_version[d] = 3
          /\ records[d] = <<3>>

\* C11: when update was killed after Version.update of step i and before the row
\* of i was written, the next current_version or update that returns runs
\* discovery on that database, leaves the latest row equal to the shape of the
\* schema, and does not apply step i again.
C11_Step ==
    (raised = "Killed" /\ raised' = "" /\ call'.op \in {"current_version", "update"}
        /\ call'.database_name = NoArg)
    => LET d == log[Len(log)].db
           i == log[Len(log)].n
       IN  /\ \E k \in DOMAIN log' : log'[k].ev = "is_compatible" /\ log'[k].db = d
           /\ records'[d] # <<>>
           /\ records'[d][Len(records'[d])] \in compat'[d]
           /\ ~\E k \in DOMAIN log' : log'[k] = Event("update", "update", d, i, TRUE)

C11_DiscoveryRepairsCrash == [][C11_Step]_vars

\* C12: an update that returned, followed at once by an update with the same
\* release identifier: the second call makes no step call and inserts no
\* dbversion row in any database.
C12_Step ==
    (UpdateReturned /\ call'.op = "update" /\ call'.pegasus_version = call.pegasus_version)
    => /\ records' = records
       /\ compat' = compat
       /\ \A k \in DOMAIN log' : log'[k].ev \notin {"update", "downgrade", "add"}
       /\ raised' = ""

C12_UpdateIsIdempotent == [][C12_Step]_vars

\* an update to version 3 that found nothing to do on a database that an earlier
\* walk had taken from 1 to 3
C12_Witness ==
    /\ UpdateReturned
    /\ Target = CURRENT_DB_VERSION
    /\ \A k \in DOMAIN log : log[k].ev \notin {"update", "downgrade", "add"}
    /\ \E d \in DBNames : records[d] = <<1, 2, 3>>

\* the steps of the walk that succeeded on database d, in the log l
StepsDoneIn(l, d) == SelectSeq(l, LAMBDA e : e.db = d /\ e.ev \in Ops /\ e.ok)

\* 1 when discovery ran on database d in the log l and found a version above 0
DiscoveredIn(l, d) == IF HighestCompatible(ProbesIn(l, d)) > 0 THEN 1 ELSE 0

\* C13: an invocation that returns leaves in each database exactly one more
\* dbversion row per version step it traversed, plus one when its discovery found
\* a version above 0; the rows before are kept, the newest row carries the version
\* the database ended at, every step is followed at once by its row and every
\* row of a walk follows its step.
C13_Step ==
    raised' = ""
    => IF log' = <<>> THEN records' = records
       ELSE
       /\ \A d \in DBNames :
            LET steps == StepsDoneIn(log', d)
                n == Len(steps) + DiscoveredIn(log', d)
            IN  /\ Len(records'[d]) = Len(records[d]) + n
                /\ SubSeq(records'[d], 1, Len(records[d])) = records[d]
                /\ n > 0 =>
                      records'[d][Len(records'[d])] =
                          IF steps # <<>>
                          THEN RecordOfStep(steps[Len(steps)].ev, steps[Len(steps)].n)
                          ELSE HighestCompatible(ProbesIn(log', d))
       /\ \A k \in DOMAIN log' :
            /\ log'[k].ev \in Ops =>
                  /\ k < Len(log')
                  /\ log'[k + 1] = Event("add", log'[k].in, log'[k].db,
                                         RecordOfStep(log'[k].ev, log'[k].n), TRUE)
            /\ (log'[k].ev = "add" /\ log'[k].in \in Ops) =>
                  /\ k > 1
                  /\ log'[k - 1].ev = log'[k].in
                  /\ log'[k - 1].db = log'[k].db
                  /\ RecordOfStep(log'[k - 1].ev, log'[k - 1].n) = log'[k].n

C13_OneRecordPerStep == [][C13_Step]_vars

\* an update that discovered version 1 on a database without a row and walked it
\* to version 3: three rows for one discovery and two steps
C13_Witness ==
    /\ UpdateReturned
    /\ \E d \in DBNames :
          /\ records[d] = <<1, 2, 3>>
          /\ DiscoveredIn(log, d) = 1
          /\ Len(StepsDoneIn(log, d)) = 2

\* C14: the version an invocation reads for a database that has dbversion rows is
\* the version of the row inserted last, not the greatest version ever recorded;
\* so after an update to v and a downgrade to w < v the version read is w, and
\* an update to v that returns applies the steps w+1 .. v again.
C14_Step ==
    \A d \in DBNames :
        (connections[d] /\ records[d] # <<>>
            /\ call'.op \in {"current_version", "update", "downgrade"} /\ ~call'.parse
            /\ d \in DOMAIN current_version')
        => LET w == records[d][Len(records[d])]
               v == ParsePegasusVersion(call'.pegasus_version)
           IN  /\ current_version'[d] = w
               /\ (call'.op = "update" /\ raised' = "" /\ w < v)
                     => SelectSeq(log', LAMBDA e : e.db = d /\ e.in \in Ops)
                            = AscendingWalk(d, w, v)

C14_CurrentIsLatestRecord == [][C14_Step]_vars

\* a database updated to 3 and downgraded to 2 was read at 2 by the next update,
\* which applied step 3 again
C14_Witness ==
    /\ UpdateReturned
    /\ \E d \in DBNames :
          /\ records[d] = <<3, 2, 3>>
          /\ current_version[d] = 2
          /\ WalkOf(d) = AscendingWalk(d, 2, 3)

\* C15: is_compatible is called on a database only by an invocation that found
\* it configured and without a dbversion row, once per version; a database that
\* has a row keeps having one, so once discovery has written a row no later
\* verify, current_version, update or downgrade probes that database again.
C15_Step ==
    \A d \in DBNames :
        /\ ProbesIn(log', d) # <<>> =>
              /\ connections[d]
              /\ records[d] = <<>>
              /\ Len(ProbesIn(log', d)) = CURRENT_DB_VERSION
        /\ records[d] # <<>> => records'[d] # <<>>

C15_DiscoveryLazyAndMemoized == [][C15_Step]_vars

\* a verify that read every database, one of which has the single row 3 on a
\* schema compatible with 1 and 3 (a row only discovery writes), without a probe
C15_Witness ==
    /\ call.op = "verify" /\ call.database_name = NoArg /\ returned /\ raised = ""
    /\ \E d \in DBNames :
          /\ connections[d]
          /\ compat[d] = {1, 3}
          /\ records[d] = <<3>>
          /\ LogOf(d) = <<>>

\* C16: a database without a handle is left alone by every operation: it holds no
\* dbversion row, the last invocation made no step call, no _update_version write
\* and no is_compatible probe on it, its version is read as None without an
\* error, and verify skips it (a verify of that database alone returns true; a
\* false or a NoResultFound of verify is due to a configured database).
C16_UnconfiguredIsNoOp ==
    /\ \A d \in DBNames :
          ~connections[d] =>
              /\ records[d] = <<>>
              /\ compat[d] = {}
              /\ LogOf(d) = <<>>
              /\ d \in DOMAIN current_version => current_version[d] = None
              /\ (call.op = "verify" /\ call.database_name # NoArg
                    /\ Upper(call.database_name) = d /\ ~UnknownRelease(call.pegasus_version))
                  => (returned /\ raised = "")
    /\ (call.op = "verify" /\ raised = "" /\ ~returned)
          => \E d \in DBNames : connections[d] /\ records[d] # <<>> /\ ~RecordedAt(d, Target)
    /\ raised = "NoResultFound"
          => \E d \in DBNames : connections[d] /\ records[d] = <<>>

\* a verify over all databases that returned true with a database left unconfigured
C16_Witness ==
    /\ call.op = "verify" /\ call.database_name = NoArg /\ returned /\ raised = ""
    /\ RecordedAt("MASTER", Target)
    /\ \E d \in DBNames : ~connections[d]

\* the identifier the claim names for each version
FirstIdentifier(v) == IF v = 1 THEN "4.3.0" ELSE IF v = 2 THEN "4.4.0" ELSE "4.5.0"

\* C17: current_version with parse=True reports, for each database of its
\* result, the first identifier of COMPATIBILITY that maps to the database's
\* version (1: "4.3.0", 2: "4.4.0", 3: "4.5.0"); a version no identifier maps to
\* (0, or None of a database without a handle) is reported unchanged.
C17_ParseTakesFirstIdentifier ==
    (call.op = "current_version" /\ call.parse)
    => \A d \in DOMAIN current_version :
          LET v == IF connections[d] THEN CurrentOf(d) ELSE None
          IN  IF v \in Versions
              THEN current_version[d] = FirstIdentifier(v)
              ELSE current_version[d] = v

\* one result with a database at version 1 reported as "4.3.0", a database at
\* version 0 reported as 0 and a database without a handle reported as None
C17_Witness ==
    /\ call.op = "current_version" /\ call.parse /\ call.database_name = NoArg
    /\ \E d1, d2, d3 \in DBNames :
          /\ RecordedAt(d1, 1) /\ current_version[d1] = "4.3.0"
          /\ connections[d2] /\ records[d2] = <<>> /\ current_version[d2] = 0
          /\ ~connections[d3] /\ current_version[d3] = None

\* C18: every dbversion row, and every row the last invocation wrote through
\* _update_version, carries a version in 1 .. CURRENT_DB_VERSION (the rows the
\* databases start with are in that range).
C18_RecordedVersionsInRange ==
    /\ \A d \in DBNames : \A k \in DOMAIN records[d] : records[d][k] \in Versions
    /\ \A k \in DOMAIN log : log[k].ev = "add" => log[k].n \in Versions

\* a downgrade to the oldest version wrote the row of version 1, and no row below
C18_Witness ==
    /\ DowngradeReturned
    /\ Target = 1
    /\ \E d \in DBNames :
          /\ records[d] = <<2, 1>>
          /\ WalkOf(d) = DescendingWalk(d, 2, 1)

Min(S) == CHOOSE x \in S : \A y \in S : x <= y

\* C19 as stated: for a database read at version cv >= 1 by update(target), the
\* recorded version v afterwards, failed steps included, has
\* cv <= v <= max(cv, target), and update makes no Version.downgrade call; for
\* downgrade to target, min(cv, target) <= v <= cv, and downgrade makes no
\* Version.update call. The target of downgrade is the version the identifier
\* maps to, or CURRENT_DB_VERSION - 1 when none is passed.
C19_Step ==
    \A d \in DBNames :
        (call'.op \in Ops /\ ~UnknownRelease(call'.pegasus_version)
            /\ connections[d] /\ current_version'[d] >= 1)
        => LET cv == current_version'[d]
               v == records'[d][Len(records'[d])]
               target == IF call'.op = "downgrade" /\ call'.pegasus_version = NoArg
                         THEN CURRENT_DB_VERSION - 1
                         ELSE ParsePegasusVersion(call'.pegasus_version)
           IN  IF call'.op = "update"
               THEN /\ cv <= v /\ v <= Max({cv, target})
                    /\ \A k \in DOMAIN log' : log'[k].ev # "downgrade"
               ELSE /\ Min({cv, target}) <= v /\ v <= cv
                    /\ \A k \in DOMAIN log' : log'[k].ev # "update"

C19_MonotoneWithinBounds == [][C19_Step]_vars

\* C20: a configured database without a dbversion row whose schema is compatible
\* with no version (discovered version 0) is never migrated: an update or a
\* downgrade only probes it, makes no step call on it and writes no row for it,
\* so it is in the same condition for every later call.
C20_Step ==
    \A d \in DBNames :
        (connections[d] /\ records[d] = <<>> /\ compat[d] = {} /\ call'.op \in Ops)
        => /\ records'[d] = <<>>
           /\ compat'[d] = {}
           /\ \A k \in DOMAIN log' :
                 log'[k].db = d => (log'[k].ev = "is_compatible" /\ ~log'[k].ok)

C20_UndiscoverableNeverMigrated == [][C20_Step]_vars

\* an update to version 3 that walked one database and only probed another one,
\* which is configured, has no row and was read at version 0
C20_Witness ==
    /\ UpdateReturned
    /\ Target = CURRENT_DB_VERSION
    /\ \E d, d2 \in DBNames :
          /\ connections[d] /\ records[d] = <<>> /\ compat[d] = {}
          /\ current_version[d] = 0
          /\ Len(ProbesIn(log, d)) = CURRENT_DB_VERSION
          /\ WalkOf(d) = <<>>
          /\ WalkOf(d2) # <<>>

====
